---- MODULE Spec2Model ----
(***************************************************************************)
(* OPD token engine: tokens, per-doctor slot ledgers and priority queues,  *)
(* and the handlers that mutate them (request, emergency, cancellation,    *)
(* no-show, completion, doctor delay).                                     *)
(*                                                                         *)
(* Slot indices are 0-based as in the code; a null slotIndex is NoSlot and *)
(* a null doctorId is NoDoctor.  Date values are counted in ticks of       *)
(* MsPerTick milliseconds and scores in units of 1/TicksPerPoint, so that  *)
(* basePriority - getTime()/1000000000 is computed exactly in integers.    *)
(***************************************************************************)
EXTENDS Integers, Sequences, FiniteSets, TLC

VARIABLES doctors, tokens, slots, queues, probe

vars == <<doctors, tokens, slots, queues, probe>>

(***************************************************************************)
(* Bounds of the model                                                     *)
(***************************************************************************)
\* number of tokens created in one run
MaxTokens == 3

(***************************************************************************)
(* Models: Token.ts, Slot.ts, the doctors of the day simulation            *)
(***************************************************************************)
PatientSource == {"WALKIN", "FOLLOWUP", "ONLINE", "REFERRAL", "EMERGENCY"}

NoFlexibility == "undefined"
TokenFlexibility == {"HIGH", "MEDIUM", "LOW"}

TokenStatus ==
    {"REQUESTED", "QUEUED", "ALLOCATED", "CANCELLED", "NO_SHOW", "COMPLETED", "REQUEUED"}

SlotStatus == {"AVAILABLE", "FULL", "BLOCKED"}

NoSlot == -1
NoDoctor == "null"
NoDate == "null"
SomeDate == "date"
Undefined == -1

\* The doctors a deployment may hold: a day shortened to a few slots, with
\* the optional emergency ceilings set or left undefined (as doctor1,
\* doctor2 and doctor3 of the simulation do).
DoctorConfigs ==
    [ DOC1 |-> [numSlots |-> 2, slotCapacity |-> 1,
                maxEmergenciesPerSlot |-> Undefined, maxEmergenciesPerDay |-> 2],
      DOC2 |-> [numSlots |-> 1, slotCapacity |-> 2,
                maxEmergenciesPerSlot |-> 1, maxEmergenciesPerDay |-> Undefined],
      DOC3 |-> [numSlots |-> 2, slotCapacity |-> 2,
                maxEmergenciesPerSlot |-> Undefined, maxEmergenciesPerDay |-> Undefined] ]

Restrict(f, D) == [x \in D |-> f[x]]

DoctorIds == DOMAIN doctors

\* slots of one doctor, in chronological order; startTime counts slot
\* durations since the schedule start
generateSlots(d) ==
    [i \in 0..(doctors[d].numSlots - 1) |->
        [startTime |-> i,
         capacity |-> doctors[d].slotCapacity,
         allocatedTokenIds |-> <<>>,
         status |-> "AVAILABLE",
         emergencyCount |-> 0]]

(***************************************************************************)
(* priorityCalculator.ts                                                   *)
(***************************************************************************)
TieDivisor == 1000000000
MsPerTick == 1000 * 1000
TicksPerPoint == TieDivisor \div MsPerTick

basePriority(source) ==
    CASE source = "EMERGENCY" -> 1000
      [] source = "REFERRAL" -> 500
      [] source = "FOLLOWUP" -> 300
      [] source = "ONLINE" -> 100
      [] source = "WALKIN" -> 0

\* mutant: the tiebreaker is rounded away to whole points
calculatePriority_WholePoints(source, requestedAt) ==
    basePriority(source) * TicksPerPoint - (requestedAt \div TicksPerPoint) * TicksPerPoint

\* score in units of 1/TicksPerPoint; requestedAt in ticks
calculatePriority(source, requestedAt) ==
    basePriority(source) * TicksPerPoint - requestedAt

(***************************************************************************)
(* queueManager.ts: a queue is a sequence of token ids, head first; the    *)
(* scores are read through the token table (the queue holds references).   *)
(***************************************************************************)
RECURSIVE insertIndexFrom(_, _, _, _)
insertIndexFrom(T, Q, id, i) ==
    IF i > Len(Q) THEN Len(Q) + 1
    ELSE IF T[id].priorityScore > T[Q[i]].priorityScore THEN i
    ELSE insertIndexFrom(T, Q, id, i + 1)

\* mutant: the token is pushed at the tail, whatever its score
enqueue_Push(T, Q, id) == Append(Q, id)

enqueue(T, Q, id) ==
    LET k == insertIndexFrom(T, Q, id, 1)
    IN  SubSeq(Q, 1, k - 1) \o <<id>> \o SubSeq(Q, k, Len(Q))

\* mutant: the entry is left in the queue
remove_Nothing(Q, id) == Q

\* remove(doctorId, tokenId): excise the first entry with that id
remove(Q, id) ==
    IF \E i \in 1..Len(Q) : Q[i] = id
    THEN LET k == CHOOSE i \in 1..Len(Q) : Q[i] = id /\ \A j \in 1..(i - 1) : Q[j] # id
         IN  SubSeq(Q, 1, k - 1) \o SubSeq(Q, k + 1, Len(Q))
    ELSE Q

\* mutant: the batch is pushed at the tail in the order given
requeue_Concat(T, Q, ids) == Q \o ids

RECURSIVE requeue(_, _, _)
requeue(T, Q, ids) ==
    IF ids = <<>> THEN Q
    ELSE requeue(T, enqueue(T, Q, Head(ids)), Tail(ids))

(***************************************************************************)
(* allocationEngine.ts                                                     *)
(***************************************************************************)
SetMin(S) == CHOOSE x \in S : \A y \in S : x <= y

occupancy(slot) == Len(slot.allocatedTokenIds)

\* the slot with one more occupant, FULL when that reaches capacity
pushToken(slot, id) ==
    [slot EXCEPT !.allocatedTokenIds = Append(@, id),
                 !.status = IF occupancy(slot) + 1 = slot.capacity THEN "FULL" ELSE @]

markAllocated(tok, d, i) ==
    [tok EXCEPT !.status = "ALLOCATED", !.doctorId = d, !.slotIndex = i,
                !.allocatedAt = SomeDate]

\* mutant: the status of the slot is not looked at
allocatableSlots_AnyStatus(S) ==
    {i \in DOMAIN S : occupancy(S[i]) < S[i].capacity}

allocatableSlots(S) ==
    {i \in DOMAIN S : S[i].status = "AVAILABLE" /\ occupancy(S[i]) < S[i].capacity}

allocateToken(T, S, id, d) ==
    IF allocatableSlots(S) = {}
    THEN [tokens |-> T, slots |-> S, ret |-> NoSlot]
    ELSE LET i == SetMin(allocatableSlots(S))
         IN  [tokens |-> [T EXCEPT ![id] = markAllocated(@, d, i)],
              slots |-> [S EXCEPT ![i] = pushToken(@, id)],
              ret |-> i]

\* mutant: the token that could not be placed is not put back
RECURSIVE allocateLoop_Drop(_, _, _, _, _)
allocateLoop_Drop(T, S, Q, d, allocated) ==
    IF Q = <<>>
    THEN [tokens |-> T, slots |-> S, queue |-> Q, ret |-> allocated]
    ELSE LET r == allocateToken(T, S, Head(Q), d)
         IN  IF r.ret = NoSlot
             THEN [tokens |-> T, slots |-> S, queue |-> Tail(Q), ret |-> allocated]
             ELSE allocateLoop_Drop(r.tokens, r.slots, Tail(Q), d, allocated + 1)

RECURSIVE allocateLoop(_, _, _, _, _)
allocateLoop(T, S, Q, d, allocated) ==
    IF Q = <<>>
    THEN [tokens |-> T, slots |-> S, queue |-> Q, ret |-> allocated]
    ELSE LET r == allocateToken(T, S, Head(Q), d)
         IN  IF r.ret = NoSlot
             THEN [tokens |-> T, slots |-> S,
                   queue |-> enqueue(T, Tail(Q), Head(Q)), ret |-> allocated]
             ELSE allocateLoop(r.tokens, r.slots, Tail(Q), d, allocated + 1)

\* mutant: the counter of placements starts at 1
allocateFromQueue_CountFromOne(T, S, Q, d) == allocateLoop(T, S, Q, d, 1)

allocateFromQueue(T, S, Q, d) == allocateLoop(T, S, Q, d, 0)

\* freeTokenFromSlot: take the token out of the slot it points at
removeId(ids, id) ==
    IF \E i \in 1..Len(ids) : ids[i] = id
    THEN LET k == CHOOSE i \in 1..Len(ids) : ids[i] = id /\ \A j \in 1..(i - 1) : ids[j] # id
         IN  SubSeq(ids, 1, k - 1) \o SubSeq(ids, k + 1, Len(ids))
    ELSE ids

contains(ids, id) == \E i \in 1..Len(ids) : ids[i] = id

\* mutant: the slot's status is left as it was
spliceToken_KeepStatus(slot, id) ==
    IF contains(slot.allocatedTokenIds, id)
    THEN [slot EXCEPT !.allocatedTokenIds = removeId(@, id)]
    ELSE slot

\* splice the id out and turn a FULL slot AVAILABLE again
spliceToken(slot, id) ==
    IF contains(slot.allocatedTokenIds, id)
    THEN [slot EXCEPT !.allocatedTokenIds = removeId(@, id),
                      !.status = IF @ = "FULL" /\ occupancy(slot) - 1 < slot.capacity
                                 THEN "AVAILABLE" ELSE @]
    ELSE slot

\* mutant: the token keeps its slotIndex
freeTokenFromSlot_KeepIndex(T, S, id) ==
    IF T[id].slotIndex = NoSlot
    THEN [tokens |-> T, slots |-> S]
    ELSE [tokens |-> [T EXCEPT ![id].allocatedAt = NoDate],
          slots |-> [S EXCEPT ![T[id].slotIndex] = spliceToken(@, id)]]

freeTokenFromSlot(T, S, id) ==
    IF T[id].slotIndex = NoSlot
    THEN [tokens |-> T, slots |-> S]
    ELSE [tokens |-> [T EXCEPT ![id].slotIndex = NoSlot, ![id].allocatedAt = NoDate],
          slots |-> [S EXCEPT ![T[id].slotIndex] = spliceToken(@, id)]]

\* steps 1 and 2 of reallocate for the slots i..end: every occupant becomes
\* REQUEUED and is collected, every slot is emptied
\* mutant: the displaced tokens keep their slotIndex
RECURSIVE requeueOccupants_KeepIndex(_, _)
requeueOccupants_KeepIndex(T, ids) ==
    IF ids = <<>> THEN T
    ELSE requeueOccupants_KeepIndex(
            [T EXCEPT ![Head(ids)].status = "REQUEUED",
                      ![Head(ids)].allocatedAt = NoDate],
            Tail(ids))

\* mutant: the displaced tokens are marked QUEUED
RECURSIVE requeueOccupants_Queued(_, _)
requeueOccupants_Queued(T, ids) ==
    IF ids = <<>> THEN T
    ELSE requeueOccupants_Queued(
            [T EXCEPT ![Head(ids)].status = "QUEUED",
                      ![Head(ids)].slotIndex = NoSlot,
                      ![Head(ids)].allocatedAt = NoDate],
            Tail(ids))

RECURSIVE requeueOccupants(_, _)
requeueOccupants(T, ids) ==
    IF ids = <<>> THEN T
    ELSE requeueOccupants(
            [T EXCEPT ![Head(ids)].status = "REQUEUED",
                      ![Head(ids)].slotIndex = NoSlot,
                      ![Head(ids)].allocatedAt = NoDate],
            Tail(ids))

\* mutant: every ALLOCATED token of the token map is marked REQUEUED, not
\* only the occupants of the slots being cleared
RECURSIVE clearSlotsFrom_AllTokens(_, _, _, _)
clearSlotsFrom_AllTokens(T, S, i, requeued) ==
    IF i \notin DOMAIN S
    THEN [tokens |-> T, slots |-> S, requeued |-> requeued]
    ELSE clearSlotsFrom_AllTokens(
            [id \in DOMAIN T |->
                IF T[id].status = "ALLOCATED"
                THEN [T[id] EXCEPT !.status = "REQUEUED", !.slotIndex = NoSlot,
                                   !.allocatedAt = NoDate]
                ELSE T[id]],
            [S EXCEPT ![i].allocatedTokenIds = <<>>],
            i + 1,
            requeued \o S[i].allocatedTokenIds)

RECURSIVE clearSlotsFrom(_, _, _, _)
clearSlotsFrom(T, S, i, requeued) ==
    IF i \notin DOMAIN S
    THEN [tokens |-> T, slots |-> S, requeued |-> requeued]
    ELSE clearSlotsFrom(requeueOccupants(T, S[i].allocatedTokenIds),
                        [S EXCEPT ![i].allocatedTokenIds = <<>>],
                        i + 1,
                        requeued \o S[i].allocatedTokenIds)

reallocate(T, S, Q, d, fromSlotIndex) ==
    LET c == clearSlotsFrom(T, S, fromSlotIndex, <<>>)
        r == allocateFromQueue(c.tokens, c.slots, requeue(c.tokens, Q, c.requeued), d)
    IN  [tokens |-> r.tokens, slots |-> r.slots, queue |-> r.queue, ret |-> c.requeued]

(***************************************************************************)
(* emergencyReshuffler.ts                                                  *)
(***************************************************************************)
RESHUFFLE_WINDOW == 2

flexScore(flexibility) ==
    CASE flexibility = "HIGH" -> 3
      [] flexibility = "MEDIUM" -> 2
      [] flexibility = "LOW" -> 1
      [] OTHER -> 0

\* mutant: an occupant of equal score replaces the one found before it
RECURSIVE mostFlexibleFrom_LastWins(_, _, _, _)
mostFlexibleFrom_LastWins(T, ids, mostFlexible, highestFlexibility) ==
    IF ids = <<>> THEN mostFlexible
    ELSE IF flexScore(T[Head(ids)].flexibility) >= highestFlexibility
         THEN mostFlexibleFrom_LastWins(T, Tail(ids), Head(ids), flexScore(T[Head(ids)].flexibility))
         ELSE mostFlexibleFrom_LastWins(T, Tail(ids), mostFlexible, highestFlexibility)

\* scan of the occupants; 0 stands for null
RECURSIVE mostFlexibleFrom(_, _, _, _)
mostFlexibleFrom(T, ids, mostFlexible, highestFlexibility) ==
    IF ids = <<>> THEN mostFlexible
    ELSE IF flexScore(T[Head(ids)].flexibility) > highestFlexibility
         THEN mostFlexibleFrom(T, Tail(ids), Head(ids), flexScore(T[Head(ids)].flexibility))
         ELSE mostFlexibleFrom(T, Tail(ids), mostFlexible, highestFlexibility)

findMostFlexibleToken(T, slot) == mostFlexibleFrom(T, slot.allocatedTokenIds, 0, -1)

SetMax(S) == CHOOSE x \in S : \A y \in S : x >= y
Max2(a, b) == IF a >= b THEN a ELSE b
Min2(a, b) == IF a <= b THEN a ELSE b

hasRoom(slot) == slot.status = "AVAILABLE" /\ occupancy(slot) < slot.capacity

\* mutant: the search runs to the end of the day and back to its start
findNearbySlotWithCapacity_WholeDay(S, currentSlotIndex, window) ==
    LET forward == {i \in DOMAIN S : i > currentSlotIndex /\ hasRoom(S[i])}
        backward == {i \in DOMAIN S : i < currentSlotIndex /\ hasRoom(S[i])}
    IN  IF forward # {} THEN SetMin(forward)
        ELSE IF backward # {} THEN SetMax(backward)
        ELSE NoSlot

findNearbySlotWithCapacity(S, currentSlotIndex, window) ==
    LET minSlot == Max2(0, currentSlotIndex - window)
        maxSlot == Min2(SetMax(DOMAIN S), currentSlotIndex + window)
        forward == {i \in (currentSlotIndex + 1)..maxSlot : hasRoom(S[i])}
        backward == {i \in minSlot..(currentSlotIndex - 1) : hasRoom(S[i])}
    IN  IF forward # {} THEN SetMin(forward)
        ELSE IF backward # {} THEN SetMax(backward)
        ELSE NoSlot

\* mutant: the moved token is pushed into the destination and left in its
\* source slot as well
shiftToken_NoSplice(T, S, id, fromSlotIndex, toSlotIndex) ==
    [tokens |-> [T EXCEPT ![id].slotIndex = toSlotIndex, ![id].allocatedAt = SomeDate],
     slots |-> [S EXCEPT ![toSlotIndex] = pushToken(@, id)]]

\* mutant: the moved token keeps its old slotIndex
shiftToken_KeepIndex(T, S, id, fromSlotIndex, toSlotIndex) ==
    LET S1 == [S EXCEPT ![fromSlotIndex] = spliceToken(@, id)]
    IN  [tokens |-> [T EXCEPT ![id].allocatedAt = SomeDate],
         slots |-> [S1 EXCEPT ![toSlotIndex] = pushToken(@, id)]]

\* mutant: the moved token is taken out of its slot and never pushed into
\* the destination
shiftToken_NoPush(T, S, id, fromSlotIndex, toSlotIndex) ==
    [tokens |-> [T EXCEPT ![id].slotIndex = toSlotIndex, ![id].allocatedAt = SomeDate],
     slots |-> [S EXCEPT ![fromSlotIndex] = spliceToken(@, id)]]

shiftToken(T, S, id, fromSlotIndex, toSlotIndex) ==
    LET S1 == [S EXCEPT ![fromSlotIndex] = spliceToken(@, id)]
    IN  [tokens |-> [T EXCEPT ![id].slotIndex = toSlotIndex, ![id].allocatedAt = SomeDate],
         slots |-> [S1 EXCEPT ![toSlotIndex] = pushToken(@, id)]]

allocateEmergencyToSlot(T, S, id, d, slotIndex) ==
    IF occupancy(S[slotIndex]) >= S[slotIndex].capacity
    THEN [tokens |-> T, slots |-> S, ret |-> NoSlot]
    ELSE [tokens |-> [T EXCEPT ![id] = markAllocated(@, d, slotIndex)],
          slots |-> [S EXCEPT ![slotIndex] = pushToken(@, id)],
          ret |-> slotIndex]

RECURSIVE reshuffleFrom(_, _, _, _, _)
reshuffleFrom(T, S, id, d, targetSlotIndex) ==
    IF targetSlotIndex \notin DOMAIN S
    THEN [tokens |-> T, slots |-> S, ret |-> NoSlot]
    ELSE LET targetSlot == S[targetSlotIndex]
             flexibleToken == findMostFlexibleToken(T, targetSlot)
             destinationSlot ==
                 findNearbySlotWithCapacity(S, targetSlotIndex, RESHUFFLE_WINDOW)
         IN  IF targetSlot.status = "BLOCKED"
             THEN reshuffleFrom(T, S, id, d, targetSlotIndex + 1)
             ELSE IF occupancy(targetSlot) < targetSlot.capacity
             THEN allocateEmergencyToSlot(T, S, id, d, targetSlotIndex)
             ELSE IF flexibleToken = 0
             THEN reshuffleFrom(T, S, id, d, targetSlotIndex + 1)
             ELSE IF destinationSlot = NoSlot
             THEN reshuffleFrom(T, S, id, d, targetSlotIndex + 1)
             ELSE LET m == shiftToken(T, S, flexibleToken, targetSlotIndex, destinationSlot)
                  IN  allocateEmergencyToSlot(m.tokens, m.slots, id, d, targetSlotIndex)

attemptReshuffle(T, S, id, d) == reshuffleFrom(T, S, id, d, 0)

(***************************************************************************)
(* emergencyHandler.ts                                                     *)
(***************************************************************************)
RECURSIVE sumEmergencyCount(_, _)
sumEmergencyCount(S, i) ==
    IF i \notin DOMAIN S THEN 0 ELSE S[i].emergencyCount + sumEmergencyCount(S, i + 1)

countDailyEmergencies(S) == sumEmergencyCount(S, 0)

\* doctor.maxEmergenciesPerSlot ?? 1
perSlotCeiling(d) ==
    IF doctors[d].maxEmergenciesPerSlot = Undefined THEN 1
    ELSE doctors[d].maxEmergenciesPerSlot

\* mutant: the status of the slot is not looked at
quotaSlots_AnyStatus(S, d) ==
    {i \in DOMAIN S : /\ occupancy(S[i]) < S[i].capacity
                      /\ S[i].emergencyCount < perSlotCeiling(d)}

\* mutant: the capacity test of allocateWithQuotaCheck left out
quotaSlots_NoCapacity(S, d) ==
    {i \in DOMAIN S : /\ S[i].status # "BLOCKED"
                      /\ S[i].emergencyCount < perSlotCeiling(d)}

quotaSlots(S, d) ==
    {i \in DOMAIN S : /\ S[i].status # "BLOCKED"
                      /\ occupancy(S[i]) < S[i].capacity
                      /\ S[i].emergencyCount < perSlotCeiling(d)}

\* mutant: the last qualifying slot of the day is taken
allocateWithQuotaCheck_LastFit(T, S, id, d) ==
    IF quotaSlots(S, d) = {}
    THEN [tokens |-> T, slots |-> S, ret |-> NoSlot]
    ELSE LET i == SetMax(quotaSlots(S, d))
         IN  [tokens |-> [T EXCEPT ![id] = markAllocated(@, d, i)],
              slots |-> [S EXCEPT ![i] = pushToken(@, id)],
              ret |-> i]

allocateWithQuotaCheck(T, S, id, d) ==
    IF quotaSlots(S, d) = {}
    THEN [tokens |-> T, slots |-> S, ret |-> NoSlot]
    ELSE LET i == SetMin(quotaSlots(S, d))
         IN  [tokens |-> [T EXCEPT ![id] = markAllocated(@, d, i)],
              slots |-> [S EXCEPT ![i] = pushToken(@, id)],
              ret |-> i]

\* mutant: the daily ceiling never checked
dailyQuotaReached_Never(S, d) == FALSE

\* mutant: the ceiling counts as reached only once it is exceeded
dailyQuotaReached_Exceeded(S, d) ==
    /\ doctors[d].maxEmergenciesPerDay # Undefined
    /\ countDailyEmergencies(S) > doctors[d].maxEmergenciesPerDay

dailyQuotaReached(S, d) ==
    /\ doctors[d].maxEmergenciesPerDay # Undefined
    /\ countDailyEmergencies(S) >= doctors[d].maxEmergenciesPerDay

queueEmergency(T, S, Q, id, d) ==
    LET T1 == [T EXCEPT ![id].status = "QUEUED", ![id].doctorId = d]
    IN  [tokens |-> T1, slots |-> S, queue |-> enqueue(T1, Q, id), ret |-> FALSE]

\* mutant: the emergency is placed but not counted
countEmergency_Uncounted(r, Q) ==
    [tokens |-> r.tokens, slots |-> r.slots, queue |-> Q, ret |-> TRUE]

countEmergency(r, Q) ==
    [tokens |-> r.tokens,
     slots |-> [r.slots EXCEPT ![r.ret].emergencyCount = @ + 1],
     queue |-> Q, ret |-> TRUE]

\* the token's source is EMERGENCY (the caller's throw is in the action)
handleEmergency(T, S, Q, id, d, reshuffler) ==
    LET T1 == [T EXCEPT ![id].priorityScore =
                            calculatePriority(T[id].source, T[id].requestedAt)]
        direct == allocateWithQuotaCheck(T1, S, id, d)
        shuffled == attemptReshuffle(T1, S, id, d)
    IN  IF dailyQuotaReached(S, d) THEN queueEmergency(T1, S, Q, id, d)
        ELSE IF direct.ret # NoSlot THEN countEmergency(direct, Q)
        ELSE IF reshuffler /\ shuffled.ret # NoSlot THEN countEmergency(shuffled, Q)
        ELSE queueEmergency(T1, S, Q, id, d)

\* mutant: the score is written before the source is looked at
handleEmergencyCall_ScoreFirst(T, S, Q, id, d, reshuffler) ==
    LET T1 == [T EXCEPT ![id].priorityScore =
                            calculatePriority(T[id].source, T[id].requestedAt)]
        r == handleEmergency(T, S, Q, id, d, reshuffler)
    IN  IF T[id].source # "EMERGENCY"
        THEN [tokens |-> T1, slots |-> S, queue |-> Q, ret |-> FALSE, threw |-> TRUE]
        ELSE [tokens |-> r.tokens, slots |-> r.slots, queue |-> r.queue,
              ret |-> r.ret, threw |-> FALSE]

\* a call of handleEmergency with its opening validation: a token of
\* another source makes it throw (threw) before anything is written
handleEmergencyCall(T, S, Q, id, d, reshuffler) ==
    LET r == handleEmergency(T, S, Q, id, d, reshuffler)
    IN  IF T[id].source # "EMERGENCY"
        THEN [tokens |-> T, slots |-> S, queue |-> Q, ret |-> FALSE, threw |-> TRUE]
        ELSE [tokens |-> r.tokens, slots |-> r.slots, queue |-> r.queue,
              ret |-> r.ret, threw |-> FALSE]

(***************************************************************************)
(* cancellationHandler.ts, noShowHandler.ts, the complete route            *)
(***************************************************************************)
\* free the slot, set the terminal status, drain the queue
releaseAndDrain(T, S, Q, id, d, terminal) ==
    LET f == freeTokenFromSlot(T, S, id)
        T1 == [f.tokens EXCEPT ![id].status = terminal, ![id].completedAt = SomeDate]
    IN  allocateFromQueue(T1, f.slots, Q, d)

\* mutant: the state of the token is not validated
cancellationRejected_Never(T, id) == FALSE

cancellationRejected(T, id) ==
    \/ T[id].status # "ALLOCATED"
    \/ T[id].doctorId = NoDoctor
    \/ T[id].slotIndex = NoSlot

handleCancellation(T, S, Q, id, d) == releaseAndDrain(T, S, Q, id, d, "CANCELLED")

handleNoShow(T, S, Q, id, d) == releaseAndDrain(T, S, Q, id, d, "NO_SHOW")

completeToken(T, S, Q, id, d) == releaseAndDrain(T, S, Q, id, d, "COMPLETED")

(***************************************************************************)
(* doctorDelayHandler.ts                                                   *)
(***************************************************************************)
\* the blocking loop: BLOCKED for each slot starting before delayEndTime,
\* stopping at the first slot that does not
\* mutant: every slot from the first one to the end of the day is BLOCKED
RECURSIVE blockFrom_WholeDay(_, _, _)
blockFrom_WholeDay(S, i, delayEndTime) ==
    IF i \notin DOMAIN S THEN S
    ELSE IF S[0].startTime < delayEndTime
         THEN blockFrom_WholeDay([S EXCEPT ![i].status = "BLOCKED"], i + 1, delayEndTime)
         ELSE S

RECURSIVE blockFrom(_, _, _)
blockFrom(S, i, delayEndTime) ==
    IF i \notin DOMAIN S THEN S
    ELSE IF S[i].startTime < delayEndTime
         THEN blockFrom([S EXCEPT ![i].status = "BLOCKED"], i + 1, delayEndTime)
         ELSE S

\* mutant: slot 0 counts as affected whatever the delay
firstAffectedSlot_Always(S, delayEndTime) ==
    IF 0 \in DOMAIN S THEN 0 ELSE -1

\* the loop breaks at the first slot that is not affected, so the first
\* affected slot is slot 0 or there is none (-1)
firstAffectedSlot(S, delayEndTime) ==
    IF 0 \in DOMAIN S /\ S[0].startTime < delayEndTime THEN 0 ELSE -1

handleDoctorDelay(T, S, Q, d, delayEndTime) ==
    IF firstAffectedSlot(S, delayEndTime) = -1
    THEN [tokens |-> T, slots |-> S, queue |-> Q, ret |-> <<>>]
    ELSE reallocate(T, blockFrom(S, 0, delayEndTime), Q, d,
                    firstAffectedSlot(S, delayEndTime))

(***************************************************************************)
(* State                                                                   *)
(***************************************************************************)
\* Date.now() of the first request, in ticks
StartOfDay == 1790000

NoProbe == [source |-> "WALKIN", requestedAt |-> 0, priorityScore |-> 0, scored |-> FALSE]

Init ==
    /\ \E d \in DOMAIN DoctorConfigs : doctors = Restrict(DoctorConfigs, {d})
    /\ tokens = <<>>
    /\ slots = [d \in DoctorIds |-> generateSlots(d)]
    /\ queues = [d \in DoctorIds |-> <<>>]
    /\ probe = <<NoProbe, NoProbe>>

\* the Date of the latest request; a new request arrives in the same
\* millisecond or later
Clock == IF tokens = <<>> THEN StartOfDay ELSE tokens[Len(tokens)].requestedAt

newToken(source, flexibility, requestedAt) ==
    [source |-> source, status |-> "REQUESTED", doctorId |-> NoDoctor,
     slotIndex |-> NoSlot, priorityScore |-> 0, requestedAt |-> requestedAt,
     allocatedAt |-> NoDate, completedAt |-> NoDate, flexibility |-> flexibility]

\* the kinds of non-emergency request: a walk-in tagged as the simulation
\* tags it, and a referral without a tag (as the request route leaves it)
RequestKinds ==
    { <<"WALKIN", "HIGH">>, <<"REFERRAL", NoFlexibility>> }

\* POST /tokens/request, non-emergency branch: score, queue, drain
RequestToken(d, source, flexibility, t) ==
    /\ Len(tokens) < MaxTokens
    /\ source # "EMERGENCY"
    /\ LET id == Len(tokens) + 1
           T0 == Append(tokens, newToken(source, flexibility, t))
           T1 == [T0 EXCEPT ![id].priorityScore = calculatePriority(source, t),
                            ![id].status = "QUEUED",
                            ![id].doctorId = d]
           r == allocateFromQueue(T1, slots[d], enqueue(T1, queues[d], id), d)
       IN  /\ tokens' = r.tokens
           /\ slots' = [slots EXCEPT ![d] = r.slots]
           /\ queues' = [queues EXCEPT ![d] = r.queue]
    /\ UNCHANGED <<doctors, probe>>

\* the simulation's intake: score and queue, the drain is a later call
EnqueueToken(d, source, flexibility, t) ==
    /\ Len(tokens) < MaxTokens
    /\ source # "EMERGENCY"
    /\ LET id == Len(tokens) + 1
           T0 == Append(tokens, newToken(source, flexibility, t))
           T1 == [T0 EXCEPT ![id].priorityScore = calculatePriority(source, t),
                            ![id].status = "QUEUED",
                            ![id].doctorId = d]
       IN  /\ tokens' = T1
           /\ queues' = [queues EXCEPT ![d] = enqueue(T1, @, id)]
    /\ UNCHANGED <<doctors, slots, probe>>

\* allocationEngine.allocateFromQueue called on its own
AllocateFromQueue(d) ==
    /\ LET r == allocateFromQueue(tokens, slots[d], queues[d], d)
       IN  /\ tokens' = r.tokens
           /\ slots' = [slots EXCEPT ![d] = r.slots]
           /\ queues' = [queues EXCEPT ![d] = r.queue]
    /\ UNCHANGED <<doctors, probe>>

\* handleEmergency on a fresh token, with the reshuffler (simulation) or
\* without it (request route); a token of another source makes it throw
\* before the token is stored
EmergencyRequest(d, source, reshuffler, t) ==
    /\ Len(tokens) < MaxTokens
    /\ LET id == Len(tokens) + 1
           T0 == Append(tokens, newToken(source, NoFlexibility, t))
           r == handleEmergencyCall(T0, slots[d], queues[d], id, d, reshuffler)
       IN  IF r.threw
           THEN UNCHANGED <<tokens, slots, queues>>
           ELSE /\ tokens' = r.tokens
                /\ slots' = [slots EXCEPT ![d] = r.slots]
                /\ queues' = [queues EXCEPT ![d] = r.queue]
    /\ UNCHANGED <<doctors, probe>>

\* POST /tokens/cancel/:id
CancelToken(id) ==
    /\ id \in 1..Len(tokens)
    /\ LET d == tokens[id].doctorId
       IN  IF tokens[id].status = "QUEUED"
           THEN /\ tokens' = [tokens EXCEPT ![id].status = "CANCELLED",
                                            ![id].completedAt = SomeDate]
                /\ queues' = IF d # NoDoctor
                             THEN [queues EXCEPT ![d] = remove(@, id)] ELSE queues
                /\ UNCHANGED slots
           ELSE IF cancellationRejected(tokens, id)
           THEN UNCHANGED <<tokens, slots, queues>>
           ELSE LET r == handleCancellation(tokens, slots[d], queues[d], id, d)
                IN  /\ tokens' = r.tokens
                    /\ slots' = [slots EXCEPT ![d] = r.slots]
                    /\ queues' = [queues EXCEPT ![d] = r.queue]
    /\ UNCHANGED <<doctors, probe>>

\* POST /tokens/no-show/:id
NoShowToken(id) ==
    /\ id \in 1..Len(tokens)
    /\ LET d == tokens[id].doctorId
           r == handleNoShow(tokens, slots[d], queues[d], id, d)
       IN  IF tokens[id].status # "ALLOCATED"
           THEN UNCHANGED <<tokens, slots, queues>>
           ELSE /\ tokens' = r.tokens
                /\ slots' = [slots EXCEPT ![d] = r.slots]
                /\ queues' = [queues EXCEPT ![d] = r.queue]
    /\ UNCHANGED <<doctors, probe>>

\* POST /tokens/complete/:id
CompleteToken(id) ==
    /\ id \in 1..Len(tokens)
    /\ LET d == tokens[id].doctorId
           r == completeToken(tokens, slots[d], queues[d], id, d)
       IN  IF tokens[id].status # "ALLOCATED"
           THEN UNCHANGED <<tokens, slots, queues>>
           ELSE /\ tokens' = r.tokens
                /\ slots' = [slots EXCEPT ![d] = r.slots]
                /\ queues' = [queues EXCEPT ![d] = r.queue]
    /\ UNCHANGED <<doctors, probe>>

\* POST /doctors/:id/delay; delayEndTime is now + delay on the scale of the
\* slots' startTime
DoctorDelay(d, delayEndTime) ==
    /\ LET r == handleDoctorDelay(tokens, slots[d], queues[d], d, delayEndTime)
       IN  /\ tokens' = r.tokens
           /\ slots' = [slots EXCEPT ![d] = r.slots]
           /\ queues' = [queues EXCEPT ![d] = r.queue]
    /\ UNCHANGED <<doctors, probe>>

\* the first request fixes the origin of the clock
ArrivalTimes == IF tokens = <<>> THEN {Clock} ELSE {Clock, Clock + 1}

Next ==
    \/ \E d \in DoctorIds, k \in RequestKinds, t \in ArrivalTimes :
          RequestToken(d, k[1], k[2], t)
    \/ \E d \in DoctorIds, k \in RequestKinds, t \in ArrivalTimes :
          EnqueueToken(d, k[1], k[2], t)
    \/ \E d \in DoctorIds : AllocateFromQueue(d)
    \/ \E d \in DoctorIds, s \in {"EMERGENCY", "WALKIN"}, b \in BOOLEAN, t \in ArrivalTimes :
          EmergencyRequest(d, s, b, t)
    \/ \E id \in 1..MaxTokens : CancelToken(id)
    \/ \E id \in 1..MaxTokens : NoShowToken(id)
    \/ \E id \in 1..MaxTokens : CompleteToken(id)
    \/ \E d \in DoctorIds : \E e \in 0..doctors[d].numSlots : DoctorDelay(d, e)

Spec == Init /\ [][Next]_vars

\* a deployment with two doctors registered side by side
InitTwo ==
    /\ doctors = Restrict(DoctorConfigs, {"DOC1", "DOC2"})
    /\ tokens = <<>>
    /\ slots = [d \in DoctorIds |-> generateSlots(d)]
    /\ queues = [d \in DoctorIds |-> <<>>]
    /\ probe = <<NoProbe, NoProbe>>

\* the same operations, with one kind of non-emergency request and every
\* request arriving at the time of the one before
NextTwo ==
    \/ \E d \in DoctorIds : RequestToken(d, "WALKIN", "HIGH", Clock)
    \/ \E d \in DoctorIds : EnqueueToken(d, "REFERRAL", NoFlexibility, Clock)
    \/ \E d \in DoctorIds : AllocateFromQueue(d)
    \/ \E d \in DoctorIds, b \in BOOLEAN : EmergencyRequest(d, "EMERGENCY", b, Clock)
    \/ \E id \in 1..MaxTokens : CancelToken(id)
    \/ \E id \in 1..MaxTokens : NoShowToken(id)
    \/ \E id \in 1..MaxTokens : CompleteToken(id)
    \/ \E d \in DoctorIds : \E e \in 0..doctors[d].numSlots : DoctorDelay(d, e)

SpecTwo == InitTwo /\ [][NextTwo]_vars

(***************************************************************************)
(* calculatePriority on its own: two tokens of any class and arrival time, *)
(* each scored by one call.                                                *)
(***************************************************************************)
\* arrival times in ticks: the epoch, the day of the run, and 2*10^11 ms
\* (a little over six years) before and after it
ProbeTimes == {0, 1, StartOfDay - 200000, StartOfDay, StartOfDay + 1, StartOfDay + 200000}

InitPrio ==
    /\ doctors = Restrict(DoctorConfigs, {"DOC1"})
    /\ tokens = <<>>
    /\ slots = [d \in DoctorIds |-> generateSlots(d)]
    /\ queues = [d \in DoctorIds |-> <<>>]
    /\ \E s1 \in PatientSource, s2 \in PatientSource, t1 \in ProbeTimes, t2 \in ProbeTimes :
          probe = << [NoProbe EXCEPT !.source = s1, !.requestedAt = t1],
                     [NoProbe EXCEPT !.source = s2, !.requestedAt = t2] >>

\* token.priorityScore = calculatePriority(token)
ScoreProbe(k) ==
    /\ ~probe[k].scored
    /\ probe' = [probe EXCEPT ![k].priorityScore =
                                  calculatePriority(probe[k].source, probe[k].requestedAt),
                              ![k].scored = TRUE]
    /\ UNCHANGED <<doctors, tokens, slots, queues>>

NextPrio == \E k \in {1, 2} : ScoreProbe(k)

SpecPrio == InitPrio /\ [][NextPrio]_vars

(***************************************************************************)
(* The reshuffler on wider ledgers.  The day of a doctor begins with one   *)
(* emergency per slot, each placed and counted by handleEmergency (every   *)
(* slot then stands at the default per-slot ceiling), followed by tagged   *)
(* requests taken in by the simulation's intake and placed by the drain.   *)
(* After that urgent requests are handled with the reshuffler, occupants   *)
(* leave, and the doctor is late.                                          *)
(***************************************************************************)
ReshuffleConfigs ==
    [ DOC4 |-> [numSlots |-> 4, slotCapacity |-> 2,
                maxEmergenciesPerSlot |-> Undefined, maxEmergenciesPerDay |-> Undefined],
      DOC5 |-> [numSlots |-> 2, slotCapacity |-> 3,
                maxEmergenciesPerSlot |-> 1, maxEmergenciesPerDay |-> Undefined] ]

\* tagged requests taken in during one run
MaxBooked == 3
\* urgent requests arriving after the bookings in one run
MaxUrgent == 1
\* occupants leaving in one run
MaxDepartures == 1

InitReshuffle ==
    /\ \E c \in DOMAIN ReshuffleConfigs : doctors = Restrict(ReshuffleConfigs, {c})
    /\ tokens = <<>>
    /\ slots = [d \in DoctorIds |-> generateSlots(d)]
    /\ queues = [d \in DoctorIds |-> <<>>]
    /\ probe = <<NoProbe, NoProbe>>

\* every request of the morning has had its first placement
bookingsPlaced(d) ==
    /\ Len(tokens) >= doctors[d].numSlots
    /\ \A id \in 1..Len(tokens) :
          tokens[id].requestedAt = StartOfDay => tokens[id].status # "QUEUED"

\* handleEmergency on a fresh EMERGENCY token created at time t
UrgentToken(d, reshuffler, t) ==
    /\ LET id == Len(tokens) + 1
           T0 == Append(tokens, newToken("EMERGENCY", NoFlexibility, t))
           r == handleEmergency(T0, slots[d], queues[d], id, d, reshuffler)
       IN  /\ tokens' = r.tokens
           /\ slots' = [slots EXCEPT ![d] = r.slots]
           /\ queues' = [queues EXCEPT ![d] = r.queue]
    /\ UNCHANGED <<doctors, probe>>

\* the emergencies that open the day, one per slot
UrgentBooking(d) ==
    /\ Len(tokens) < doctors[d].numSlots
    /\ UrgentToken(d, TRUE, StartOfDay)

\* the simulation's intake of one tagged request: create, score, queue
Intake(d, flexibility) ==
    /\ Len(tokens) >= doctors[d].numSlots
    /\ Cardinality({id \in 1..Len(tokens) : tokens[id].source = "WALKIN"}) < MaxBooked
    /\ \A id \in 1..Len(tokens) :
          /\ tokens[id].requestedAt = StartOfDay
          /\ tokens[id].source = "WALKIN" => tokens[id].status = "QUEUED"
    /\ LET id == Len(tokens) + 1
           T0 == Append(tokens, newToken("WALKIN", flexibility, StartOfDay))
           T1 == [T0 EXCEPT ![id].priorityScore = calculatePriority("WALKIN", StartOfDay),
                            ![id].status = "QUEUED",
                            ![id].doctorId = d]
       IN  /\ tokens' = T1
           /\ queues' = [queues EXCEPT ![d] = enqueue(T1, @, id)]
    /\ UNCHANGED <<doctors, slots, probe>>

\* an urgent request after the bookings, handled with the reshuffler
UrgentArrival(d) ==
    /\ bookingsPlaced(d)
    /\ Cardinality({id \in 1..Len(tokens) : tokens[id].requestedAt > StartOfDay}) < MaxUrgent
    /\ UrgentToken(d, TRUE, StartOfDay + 1)

\* an occupant is seen and leaves
Departure(id) ==
    /\ id \in 1..Len(tokens)
    /\ tokens[id].status = "ALLOCATED"
    /\ bookingsPlaced(tokens[id].doctorId)
    /\ Cardinality({x \in 1..Len(tokens) : tokens[x].status = "COMPLETED"}) < MaxDepartures
    /\ CompleteToken(id)

\* the doctor is late, announced once the bookings are placed
LateDoctor(d, e) ==
    /\ bookingsPlaced(d)
    /\ \A i \in DOMAIN slots[d] : slots[d][i].status # "BLOCKED"
    /\ DoctorDelay(d, e)

NextReshuffle ==
    \/ \E d \in DoctorIds : UrgentBooking(d)
    \/ \E d \in DoctorIds, f \in TokenFlexibility \cup {NoFlexibility} : Intake(d, f)
    \/ \E d \in DoctorIds : AllocateFromQueue(d)
    \/ \E d \in DoctorIds : UrgentArrival(d)
    \/ \E id \in 1..Len(tokens) : Departure(id)
    \/ \E d \in DoctorIds : \E e \in 0..doctors[d].numSlots : LateDoctor(d, e)

SpecReshuffle == InitReshuffle /\ [][NextReshuffle]_vars

(***************************************************************************)
(* Properties                                                              *)
(***************************************************************************)
TokenIds == 1..Len(tokens)

SlotRefs == {<<d, i>> \in DoctorIds \X (0..1) : i \in DOMAIN slots[d]}

slotAt(ref) == slots[ref[1]][ref[2]]

\* occurrences of a value in a sequence
occurrences(seq, x) == Cardinality({k \in 1..Len(seq) : seq[k] = x})

emergencyOccupants(slot) ==
    Cardinality({k \in 1..Len(slot.allocatedTokenIds) :
                    tokens[slot.allocatedTokenIds[k]].source = "EMERGENCY"})

\* C1: no slot ever holds more occupants than its capacity
C1_CapacityRespected ==
    \A ref \in SlotRefs : occupancy(slotAt(ref)) <= slotAt(ref).capacity

\* every slot of a doctor is filled to capacity, one by an emergency that
\* took the place of a moved occupant, and a token waits in the queue
C1_Witness ==
    \E d \in DoctorIds :
        /\ \A i \in DOMAIN slots[d] : occupancy(slots[d][i]) = slots[d][i].capacity
        /\ \E i \in DOMAIN slots[d] : emergencyOccupants(slots[d][i]) > 0
        /\ queues[d] # <<>>

\* C2: every slot's emergencyCount stays at or below the per-slot ceiling
\* (maxEmergenciesPerSlot, 1 when unset)
C2_PerSlotCeiling ==
    \A ref \in SlotRefs : slotAt(ref).emergencyCount <= perSlotCeiling(ref[1])

\* C3: with maxEmergenciesPerDay set, the emergencyCount of a doctor's slots
\* never adds up to more than it
C3_PerDayCeiling ==
    \A d \in DoctorIds :
        doctors[d].maxEmergenciesPerDay # Undefined =>
            countDailyEmergencies(slots[d]) <= doctors[d].maxEmergenciesPerDay

\* the day's ceiling is reached and a further emergency was sent to the queue
C3_Witness ==
    \E d \in DoctorIds :
        /\ doctors[d].maxEmergenciesPerDay # Undefined
        /\ countDailyEmergencies(slots[d]) = doctors[d].maxEmergenciesPerDay
        /\ \E id \in TokenIds : /\ tokens[id].source = "EMERGENCY"
                                /\ tokens[id].status = "QUEUED"
                                /\ tokens[id].doctorId = d

\* C4: the EMERGENCY tokens actually held by a slot never outnumber the
\* per-slot ceiling, however they got there
C4_EmergencyOccupantsWithinCeiling ==
    \A ref \in SlotRefs : emergencyOccupants(slotAt(ref)) <= perSlotCeiling(ref[1])

\* C5: an ALLOCATED token has a slotIndex, the slot at that index of its
\* doctor holds its id exactly once, and no other slot holds it
C5_AllocatedLinkage ==
    \A id \in TokenIds :
        tokens[id].status = "ALLOCATED" =>
            /\ tokens[id].slotIndex # NoSlot
            /\ tokens[id].doctorId \in DoctorIds
            /\ tokens[id].slotIndex \in DOMAIN slots[tokens[id].doctorId]
            /\ \A ref \in SlotRefs :
                  occurrences(slotAt(ref).allocatedTokenIds, id) =
                      IF ref = <<tokens[id].doctorId, tokens[id].slotIndex>> THEN 1 ELSE 0

\* an emergency sits in slot 0 and was counted there, and a tagged walk-in
\* sits in slot 1, whose only counted emergency has been cancelled: the
\* walk-in held slot 0 when that emergency came and was moved by the reshuffler
C5_Witness ==
    \E d \in DoctorIds, e \in TokenIds, w \in TokenIds, c \in TokenIds :
        /\ tokens[e].source = "EMERGENCY" /\ tokens[e].status = "ALLOCATED"
        /\ tokens[e].doctorId = d /\ tokens[e].slotIndex = 0
        /\ tokens[w].flexibility = "HIGH" /\ tokens[w].status = "ALLOCATED"
        /\ tokens[w].doctorId = d /\ tokens[w].slotIndex = 1
        /\ tokens[c].source = "EMERGENCY" /\ tokens[c].status = "CANCELLED"
        /\ slots[d][0].status = "FULL"
        /\ slots[d][0].emergencyCount = 1
        /\ slots[d][1].emergencyCount = 1

\* C6: slotIndex is set exactly for the ALLOCATED tokens, and a QUEUED,
\* REQUEUED or ALLOCATED token has a doctorId
C6_SlotIndexIffAllocated ==
    \A id \in TokenIds :
        /\ (tokens[id].slotIndex # NoSlot) <=> (tokens[id].status = "ALLOCATED")
        /\ tokens[id].status \in {"QUEUED", "REQUEUED", "ALLOCATED"} =>
              tokens[id].doctorId # NoDoctor

\* tokens that lost their slot to a delay, to a cancellation, and one that holds a slot
C6_Witness ==
    /\ \E id \in TokenIds : tokens[id].status = "REQUEUED"
    /\ \E id \in TokenIds : tokens[id].status = "CANCELLED" /\ tokens[id].source = "WALKIN"
    /\ \E id \in TokenIds : tokens[id].status = "ALLOCATED"

\* C7: a QUEUED or REQUEUED token is in its doctor's queue exactly once and
\* in no slot, and a queue holds only QUEUED and REQUEUED tokens
C7_NothingDropped ==
    /\ \A id \in TokenIds :
          tokens[id].status \in {"QUEUED", "REQUEUED"} =>
              /\ tokens[id].doctorId \in DoctorIds
              /\ occurrences(queues[tokens[id].doctorId], id) = 1
              /\ \A ref \in SlotRefs : occurrences(slotAt(ref).allocatedTokenIds, id) = 0
    /\ \A d \in DoctorIds : \A k \in 1..Len(queues[d]) :
          /\ queues[d][k] \in TokenIds
          /\ tokens[queues[d][k]].status \in {"QUEUED", "REQUEUED"}

\* a queue holding a displaced token and a queued one while every slot of the
\* doctor is full or blocked: the drain put its head back
C7_Witness ==
    \E d \in DoctorIds :
        /\ \E k \in 1..Len(queues[d]) : tokens[queues[d][k]].status = "REQUEUED"
        /\ \E k \in 1..Len(queues[d]) : tokens[queues[d][k]].status = "QUEUED"
        /\ \E i \in DOMAIN slots[d] : slots[d][i].status = "FULL"
        /\ allocatableSlots(slots[d]) = {}

\* C8: a slot that is not BLOCKED is FULL exactly when its occupant count
\* equals its capacity, and AVAILABLE otherwise
C8_StatusDerived ==
    \A ref \in SlotRefs :
        slotAt(ref).status # "BLOCKED" =>
            /\ slotAt(ref).status \in {"FULL", "AVAILABLE"}
            /\ (slotAt(ref).status = "FULL") <=>
                   (occupancy(slotAt(ref)) = slotAt(ref).capacity)

classRank(source) ==
    CASE source = "EMERGENCY" -> 5
      [] source = "REFERRAL" -> 4
      [] source = "FOLLOWUP" -> 3
      [] source = "ONLINE" -> 2
      [] source = "WALKIN" -> 1

\* C9: of two scored requests the one of the higher class has the strictly
\* higher score, whatever the two arrival times
C9_ClassDominance ==
    (probe[1].scored /\ probe[2].scored
        /\ classRank(probe[1].source) > classRank(probe[2].source))
    => probe[1].priorityScore > probe[2].priorityScore

\* the documented band of a class, in score units: [floor, ceiling)
bandFloor(source) ==
    (CASE source = "EMERGENCY" -> 1000
       [] source = "REFERRAL" -> 500
       [] source = "FOLLOWUP" -> 300
       [] source = "ONLINE" -> 100
       [] source = "WALKIN" -> 0) * TicksPerPoint

bandCeiling(source) ==
    (CASE source = "REFERRAL" -> 1000
       [] source = "FOLLOWUP" -> 500
       [] source = "ONLINE" -> 300
       [] source = "WALKIN" -> 100) * TicksPerPoint

\* C10: a score lies in the band documented for its class (EMERGENCY at or
\* above 1000, REFERRAL 500..999, FOLLOWUP 300..499, ONLINE 100..299,
\* WALKIN 0..99)
C10_ScoreInBand ==
    \A k \in {1, 2} :
        probe[k].scored =>
            /\ probe[k].priorityScore >= bandFloor(probe[k].source)
            /\ probe[k].source # "EMERGENCY" =>
                  probe[k].priorityScore < bandCeiling(probe[k].source)

\* C11: of two scored requests of the same class the one that arrived
\* earlier has the strictly higher score
C11_EarlierScoresHigher ==
    (probe[1].scored /\ probe[2].scored
        /\ probe[1].source = probe[2].source
        /\ probe[1].requestedAt < probe[2].requestedAt)
    => probe[1].priorityScore > probe[2].priorityScore

\* two requests of one class, one tick apart on the day of the run, both scored
C11_Witness ==
    /\ probe[1].scored /\ probe[2].scored
    /\ probe[1].source = probe[2].source
    /\ probe[1].requestedAt = StartOfDay
    /\ probe[2].requestedAt = StartOfDay + 1

\* C12: every queue is in non-increasing priorityScore order, and its head
\* (what dequeue returns) has a score no entry of the queue exceeds
C12_QueueSorted ==
    \A d \in DoctorIds :
        /\ \A k \in 1..(Len(queues[d]) - 1) :
              tokens[queues[d][k]].priorityScore >= tokens[queues[d][k + 1]].priorityScore
        /\ \A k \in 1..Len(queues[d]) :
              tokens[Head(queues[d])].priorityScore >= tokens[queues[d][k]].priorityScore

\* a token created later stands in front of an earlier one with a lower
\* score, and a third entry follows: enqueue inserted in the middle or front
C12_Witness ==
    \E d \in DoctorIds :
        /\ Len(queues[d]) = 3
        /\ \E k \in 1..2 :
              /\ queues[d][k] > queues[d][k + 1]
              /\ tokens[queues[d][k]].priorityScore > tokens[queues[d][k + 1]].priorityScore

\* C13: in every step a stored token keeps its status or moves along
\* QUEUED -> ALLOCATED | CANCELLED, ALLOCATED -> CANCELLED | NO_SHOW |
\* COMPLETED | REQUEUED, REQUEUED -> ALLOCATED; a new token (REQUESTED) ends
\* its first call QUEUED or ALLOCATED; and a token becomes REQUEUED only in
\* a handleDoctorDelay step and only from ALLOCATED
C13_Lifecycle ==
    [][ LET edges == { <<"QUEUED", "ALLOCATED">>, <<"QUEUED", "CANCELLED">>,
                       <<"ALLOCATED", "CANCELLED">>, <<"ALLOCATED", "NO_SHOW">>,
                       <<"ALLOCATED", "COMPLETED">>, <<"ALLOCATED", "REQUEUED">>,
                       <<"REQUEUED", "ALLOCATED">> }
        IN  /\ Len(tokens') >= Len(tokens)
            /\ \A id \in 1..Len(tokens) :
                  \/ tokens'[id].status = tokens[id].status
                  \/ <<tokens[id].status, tokens'[id].status>> \in edges
            /\ \A id \in (Len(tokens) + 1)..Len(tokens') :
                  tokens'[id].status \in {"QUEUED", "ALLOCATED"}
            /\ \A id \in 1..Len(tokens) :
                  (tokens'[id].status = "REQUEUED" /\ tokens[id].status # "REQUEUED") =>
                      /\ tokens[id].status = "ALLOCATED"
                      /\ \E e \in 0..doctors[tokens[id].doctorId].numSlots :
                            DoctorDelay(tokens[id].doctorId, e)
      ]_vars

\* a token displaced by a delay waits REQUEUED, after one token left as a
\* no-show and another was completed
C13_Witness ==
    /\ \E id \in TokenIds : tokens[id].status = "REQUEUED"
    /\ \E id \in TokenIds : tokens[id].status = "NO_SHOW"
    /\ \E id \in TokenIds : tokens[id].status = "COMPLETED"

\* C14: a handleEmergency call changes the status of no token that existed
\* before it, leaves every ALLOCATED token in exactly one slot (once), and
\* keeps every entry of the queue
C14_EmergencyDisplacesNobody ==
    [][ (\E d \in DoctorIds, b \in BOOLEAN, t \in ArrivalTimes :
            EmergencyRequest(d, "EMERGENCY", b, t))
        => /\ \A id \in 1..Len(tokens) :
                 /\ tokens'[id].status = tokens[id].status
                 /\ tokens[id].status = "ALLOCATED" =>
                       \E ref \in SlotRefs :
                          /\ occurrences(slots'[ref[1]][ref[2]].allocatedTokenIds, id) = 1
                          /\ \A other \in SlotRefs \ {ref} :
                                occurrences(slots'[other[1]][other[2]].allocatedTokenIds, id) = 0
           /\ \A d \in DoctorIds : \A k \in 1..Len(queues[d]) :
                 occurrences(queues'[d], queues[d][k]) = 1
      ]_vars

\* the last token created is an emergency placed in slot 0 and counted
\* there; an older walk-in sits in slot 1, where the only emergency counted
\* has since been seen or missed its turn: no direct placement was open, the
\* walk-in was moved out of slot 0 to make room
C14_Witness ==
    \E d \in DoctorIds, w \in TokenIds, c \in TokenIds :
        /\ Len(tokens) = MaxTokens
        /\ tokens[Len(tokens)].source = "EMERGENCY"
        /\ tokens[Len(tokens)].status = "ALLOCATED"
        /\ tokens[Len(tokens)].doctorId = d
        /\ slots[d][0].allocatedTokenIds = <<Len(tokens)>>
        /\ slots[d][0].emergencyCount = 1
        /\ tokens[w].source = "WALKIN" /\ tokens[w].status = "ALLOCATED"
        /\ 1 \in DOMAIN slots[d]
        /\ slots[d][1].allocatedTokenIds = <<w>>
        /\ slots[d][1].emergencyCount = 1
        /\ tokens[c].source = "EMERGENCY"
        /\ tokens[c].status \in {"NO_SHOW", "COMPLETED"}

\* C15: a handleDoctorDelay call takes out of their slot only occupants of
\* the slots that start before delayEndTime; an occupant of a slot that
\* starts at or after delayEndTime is ALLOCATED in that same slot after it
C15_DelayLocalised ==
    [][ \A d \in DoctorIds : \A e \in 0..doctors[d].numSlots :
            DoctorDelay(d, e) =>
                \A i \in DOMAIN slots[d] :
                    slots[d][i].startTime >= e =>
                        \A k \in 1..Len(slots[d][i].allocatedTokenIds) :
                            LET id == slots[d][i].allocatedTokenIds[k]
                            IN  /\ tokens'[id].status = "ALLOCATED"
                                /\ tokens'[id].slotIndex = i
                                /\ contains(slots'[d][i].allocatedTokenIds, id)
      ]_vars

\* C16: handleDoctorDelay returns exactly the tokens that held a slot at or
\* after the first affected index when it was called, each once; when it
\* returns, each of them is ALLOCATED in a slot that is not BLOCKED, or is
\* REQUEUED and in the doctor's queue
C16_DelayReturnsDisplaced ==
    [][ \A d \in DoctorIds : \A e \in 0..doctors[d].numSlots :
            DoctorDelay(d, e) =>
                LET ret == handleDoctorDelay(tokens, slots[d], queues[d], d, e).ret
                    first == firstAffectedSlot(slots[d], e)
                    displaced ==
                        {id \in TokenIds :
                            \E i \in DOMAIN slots[d] :
                                /\ first # -1 /\ i >= first
                                /\ contains(slots[d][i].allocatedTokenIds, id)}
                IN  /\ {ret[k] : k \in 1..Len(ret)} = displaced
                    /\ Len(ret) = Cardinality(displaced)
                    /\ \A id \in displaced :
                          \/ /\ tokens'[id].status = "ALLOCATED"
                             /\ tokens'[id].slotIndex \in DOMAIN slots'[d]
                             /\ slots'[d][tokens'[id].slotIndex].status # "BLOCKED"
                             /\ contains(slots'[d][tokens'[id].slotIndex].allocatedTokenIds, id)
                          \/ /\ tokens'[id].status = "REQUEUED"
                             /\ occurrences(queues'[d], id) = 1
      ]_vars

\* the only emergency was counted in slot 0, which is now BLOCKED, and sits
\* in slot 1 (a delay took it out and the drain placed it again), while
\* another displaced token waits REQUEUED in the queue
C16_Witness ==
    \E d \in DoctorIds, e \in TokenIds, x \in TokenIds :
        /\ 1 \in DOMAIN slots[d]
        /\ slots[d][0].status = "BLOCKED"
        /\ slots[d][0].emergencyCount = 1
        /\ slots[d][1].emergencyCount = 0
        /\ \A id \in TokenIds : tokens[id].source = "EMERGENCY" <=> id = e
        /\ tokens[e].status = "ALLOCATED" /\ tokens[e].slotIndex = 1
        /\ tokens[x].status = "REQUEUED"
        /\ contains(queues[d], x)

\* C17: a cancel of a token that is neither QUEUED nor ALLOCATED, and a
\* no-show or a complete of a token that is not ALLOCATED, change no token,
\* no slot and no queue
C17_RejectedCallsChangeNothing ==
    [][ \A id \in 1..Len(tokens) :
            /\ (CancelToken(id) /\ tokens[id].status \notin {"QUEUED", "ALLOCATED"})
                  => UNCHANGED <<tokens, slots, queues>>
            /\ (NoShowToken(id) /\ tokens[id].status # "ALLOCATED")
                  => UNCHANGED <<tokens, slots, queues>>
            /\ (CompleteToken(id) /\ tokens[id].status # "ALLOCATED")
                  => UNCHANGED <<tokens, slots, queues>>
      ]_vars

\* tokens on which such calls are rejected: one CANCELLED, one REQUEUED
\* (no cancel, no no-show, no complete) and one QUEUED (no no-show, no complete)
C17_Witness ==
    /\ \E id \in TokenIds : tokens[id].status = "CANCELLED"
    /\ \E id \in TokenIds : tokens[id].status = "REQUEUED"
    /\ \E id \in TokenIds : tokens[id].status = "QUEUED"

\* C18: a cancel, no-show or complete of an ALLOCATED token leaves it in no
\* slot with status CANCELLED, NO_SHOW or COMPLETED, and the token that was
\* at the head of the doctor's queue when the call started is ALLOCATED
\* when it returns
C18_DepartureBackfills ==
    [][ \A id \in 1..Len(tokens) :
            tokens[id].status = "ALLOCATED" =>
                LET d == tokens[id].doctorId
                    gone == \A ref \in SlotRefs :
                               occurrences(slots'[ref[1]][ref[2]].allocatedTokenIds, id) = 0
                    backfilled == queues[d] # <<>> =>
                                      tokens'[Head(queues[d])].status = "ALLOCATED"
                IN  /\ CancelToken(id) =>
                          tokens'[id].status = "CANCELLED" /\ gone /\ backfilled
                    /\ NoShowToken(id) =>
                          tokens'[id].status = "NO_SHOW" /\ gone /\ backfilled
                    /\ CompleteToken(id) =>
                          tokens'[id].status = "COMPLETED" /\ gone /\ backfilled
      ]_vars

\* both one-seat slots are taken, slot 0 by the token created last, and the
\* first token, which had slot 0, has left: its seat went to the queue's head
C18_Witness ==
    \E d \in DoctorIds :
        /\ Len(tokens) = 3
        /\ tokens[1].status \in {"CANCELLED", "NO_SHOW", "COMPLETED"}
        /\ 1 \in DOMAIN slots[d]
        /\ slots[d][0].capacity = 1
        /\ slots[d][0].allocatedTokenIds = <<3>>
        /\ slots[d][1].allocatedTokenIds = <<2>>
        /\ queues[d] = <<>>

\* C19: in a step that runs allocateFromQueue (on its own, after a request
\* was queued, after a departure freed a seat, or inside reallocate after a
\* delay), of two tokens waiting in the queue when the drain starts, if the
\* one with the lower score is ALLOCATED by the step then the one with the
\* higher score is too, in a slot whose index is not greater
C19_DrainKeepsPriority ==
    [][ \A d \in DoctorIds :
            LET queued == {queues[d][k] : k \in 1..Len(queues[d])}
                occupants == {id \in TokenIds :
                                 \E i \in DOMAIN slots[d] :
                                     contains(slots[d][i].allocatedTokenIds, id)}
                inOrder(waiting) ==
                    \A X \in waiting, Y \in waiting :
                        (/\ tokens'[X].priorityScore > tokens'[Y].priorityScore
                         /\ tokens'[Y].status = "ALLOCATED")
                        => /\ tokens'[X].status = "ALLOCATED"
                           /\ tokens'[X].slotIndex <= tokens'[Y].slotIndex
            IN  /\ AllocateFromQueue(d) => inOrder(queued)
                /\ (\E k \in RequestKinds, t \in ArrivalTimes : RequestToken(d, k[1], k[2], t))
                      => inOrder(queued \cup {Len(tokens) + 1})
                /\ (\E id \in occupants :
                        CancelToken(id) \/ NoShowToken(id) \/ CompleteToken(id))
                      => inOrder(queued)
                /\ (\E e \in 1..doctors[d].numSlots : DoctorDelay(d, e))
                      => inOrder(queued \cup occupants)
      ]_vars

\* two tokens and no emergency: the one created second has the higher score
\* and slot 0, the one created first has slot 1; requests drained one by one
\* would have given slot 0 to the first, so both were placed by one drain
C19_Witness ==
    \E d \in DoctorIds :
        /\ Len(tokens) = 2
        /\ tokens[2].priorityScore > tokens[1].priorityScore
        /\ tokens[1].source # "EMERGENCY" /\ tokens[2].source # "EMERGENCY"
        /\ 1 \in DOMAIN slots[d]
        /\ slots[d][0].status # "BLOCKED"
        /\ slots[d][0].allocatedTokenIds = <<2>>
        /\ slots[d][1].allocatedTokenIds = <<1>>

\* C20: an operation invoked for one doctor leaves the slots, the queue and
\* the tokens of every other doctor as they were; a delay on one doctor and
\* a drain of another give the same result in either order; and an id in a
\* doctor's slots or queue belongs to a token whose doctorId is that doctor
C20_ProviderScoped ==
    /\ [][ \A d \in DoctorIds :
              LET untouched ==
                      \A q \in DoctorIds \ {d} :
                          /\ slots'[q] = slots[q]
                          /\ queues'[q] = queues[q]
                          /\ \A id \in 1..Len(tokens) :
                                tokens[id].doctorId = q => tokens'[id] = tokens[id]
                  invokedFor ==
                      \/ \E k \in RequestKinds, t \in ArrivalTimes :
                            RequestToken(d, k[1], k[2], t) \/ EnqueueToken(d, k[1], k[2], t)
                      \/ AllocateFromQueue(d)
                      \/ \E b \in BOOLEAN, t \in ArrivalTimes :
                            EmergencyRequest(d, "EMERGENCY", b, t)
                      \/ \E id \in 1..Len(tokens) :
                            /\ tokens[id].doctorId = d
                            /\ CancelToken(id) \/ NoShowToken(id) \/ CompleteToken(id)
                      \/ \E e \in 0..doctors[d].numSlots : DoctorDelay(d, e)
              IN  untouched \/ ~invokedFor
         ]_vars
    /\ [](\A p \in DoctorIds, q \in DoctorIds :
              p # q =>
                  \A e \in 0..doctors[p].numSlots :
                      LET delay1 == handleDoctorDelay(tokens, slots[p], queues[p], p, e)
                          drain2 == allocateFromQueue(delay1.tokens, slots[q], queues[q], q)
                          drain1 == allocateFromQueue(tokens, slots[q], queues[q], q)
                          delay2 == handleDoctorDelay(drain1.tokens, slots[p], queues[p], p, e)
                      IN  /\ drain2.tokens = delay2.tokens
                          /\ drain2.slots = drain1.slots /\ drain2.queue = drain1.queue
                          /\ delay2.slots = delay1.slots /\ delay2.queue = delay1.queue)
    /\ [](\A d \in DoctorIds :
              /\ \A k \in 1..Len(queues[d]) : tokens[queues[d][k]].doctorId = d
              /\ \A i \in DOMAIN slots[d] : \A k \in 1..Len(slots[d][i].allocatedTokenIds) :
                    tokens[slots[d][i].allocatedTokenIds[k]].doctorId = d)

\* two doctors side by side: one has a BLOCKED slot and a displaced token
\* waiting, the other holds an occupant and a queued token of its own
C20_Witness ==
    \E p \in DoctorIds, q \in DoctorIds :
        /\ p # q
        /\ \E i \in DOMAIN slots[p] : slots[p][i].status = "BLOCKED"
        /\ \E k \in 1..Len(queues[p]) : tokens[queues[p][k]].status = "REQUEUED"
        /\ \E i \in DOMAIN slots[q] : slots[q][i].allocatedTokenIds # <<>>
        /\ queues[q] # <<>>

\* the slots allocateToken is documented to consider: not BLOCKED, with a
\* free seat
openSlots(S) ==
    {i \in DOMAIN S : S[i].status # "BLOCKED" /\ occupancy(S[i]) < S[i].capacity}

\* C21: allocateToken on the head of a queue places it in the lowest-index
\* slot that is not BLOCKED and has a free seat (status ALLOCATED, doctorId
\* and slotIndex set, the slot FULL when it reaches capacity, nothing else
\* touched), and returns null with nothing changed only when no such slot
\* exists
C21_AllocateTokenFirstFit ==
    \A d \in DoctorIds :
        queues[d] # <<>> =>
            LET id == Head(queues[d])
                r == allocateToken(tokens, slots[d], id, d)
            IN  IF openSlots(slots[d]) = {}
                THEN r.ret = NoSlot /\ r.tokens = tokens /\ r.slots = slots[d]
                ELSE LET i == SetMin(openSlots(slots[d]))
                     IN  /\ r.ret = i
                         /\ r.tokens[id].status = "ALLOCATED"
                         /\ r.tokens[id].doctorId = d
                         /\ r.tokens[id].slotIndex = i
                         /\ \A x \in TokenIds \ {id} : r.tokens[x] = tokens[x]
                         /\ r.slots[i].allocatedTokenIds =
                                Append(slots[d][i].allocatedTokenIds, id)
                         /\ (occupancy(r.slots[i]) = r.slots[i].capacity) =>
                                r.slots[i].status = "FULL"
                         /\ \A j \in DOMAIN slots[d] \ {i} : r.slots[j] = slots[d][j]

RECURSIVE sumOccupancy(_, _)
sumOccupancy(S, i) ==
    IF i \notin DOMAIN S THEN 0 ELSE occupancy(S[i]) + sumOccupancy(S, i + 1)

\* occupants of all the slots of one doctor
totalOccupancy(S) == sumOccupancy(S, 0)

\* C22: when allocateFromQueue returns, the queue is empty or no slot that
\* is not BLOCKED has a free seat, and the count it returns is both the
\* number of entries the queue lost and the number of occupants the slots
\* gained
C22_DrainExhausts ==
    \A d \in DoctorIds :
        LET r == allocateFromQueue(tokens, slots[d], queues[d], d)
        IN  /\ r.queue = <<>> \/ openSlots(r.slots) = {}
            /\ r.ret = Len(queues[d]) - Len(r.queue)
            /\ r.ret = totalOccupancy(r.slots) - totalOccupancy(slots[d])

\* C23: an allocateFromQueue call that places nothing leaves the queue the
\* very sequence it was, the dequeued head back in first position, also
\* when queued tokens have equal scores
C23_FailedDrainRestoresQueue ==
    \A d \in DoctorIds :
        LET r == allocateFromQueue(tokens, slots[d], queues[d], d)
        IN  r.ret = 0 => r.queue = queues[d]

\* the ledger inside handleDoctorDelay when reallocate hands the displaced
\* tokens to requeue: slots blocked, occupants marked and collected, slots
\* emptied, the queue not yet touched
beforeRequeue(T, S, delayEndTime) ==
    clearSlotsFrom(T, blockFrom(S, 0, delayEndTime),
                   firstAffectedSlot(S, delayEndTime), <<>>)

\* the delays that reach at least one slot of doctor d
reachingDelays(d) ==
    {e \in 0..doctors[d].numSlots : firstAffectedSlot(slots[d], e) # -1}

withUrgent(T) == Append(T, newToken("EMERGENCY", NoFlexibility, Clock))

\* C25: handleEmergency ends in one of two ways.  It returns true: the
\* token is ALLOCATED, held once by the slot its slotIndex names and by no
\* other, that slot is not BLOCKED and its emergencyCount went up by 1, no
\* other count moved, and the token is not in the queue.  Or it returns
\* false: the token is QUEUED, once in the doctor's queue, in no slot, and
\* no emergencyCount moved
C25_EmergencyOutcome ==
    \A d \in DoctorIds, b \in BOOLEAN :
        LET id == Len(tokens) + 1
            r == handleEmergency(withUrgent(tokens), slots[d], queues[d], id, d, b)
            at == r.tokens[id].slotIndex
            holders == {i \in DOMAIN r.slots : contains(r.slots[i].allocatedTokenIds, id)}
        IN  /\ r.ret \in BOOLEAN
            /\ r.tokens[id].doctorId = d
            /\ r.ret =>
                  /\ r.tokens[id].status = "ALLOCATED"
                  /\ holders = {at}
                  /\ occurrences(r.slots[at].allocatedTokenIds, id) = 1
                  /\ r.slots[at].status # "BLOCKED"
                  /\ \A i \in DOMAIN slots[d] :
                        r.slots[i].emergencyCount =
                            slots[d][i].emergencyCount + (IF i = at THEN 1 ELSE 0)
                  /\ occurrences(r.queue, id) = 0
            /\ ~r.ret =>
                  /\ r.tokens[id].status = "QUEUED"
                  /\ r.tokens[id].slotIndex = NoSlot
                  /\ occurrences(r.queue, id) = 1
                  /\ holders = {}
                  /\ \A i \in DOMAIN slots[d] :
                        r.slots[i].emergencyCount = slots[d][i].emergencyCount

\* both outcomes side by side: an emergency holds a slot that counted it,
\* and a later emergency waits QUEUED in the same doctor's queue although
\* the day's ceiling, if there is one, was not reached
C25_Witness ==
    \E d \in DoctorIds, a \in TokenIds, q \in TokenIds :
        /\ tokens[a].source = "EMERGENCY" /\ tokens[a].status = "ALLOCATED"
        /\ tokens[a].doctorId = d
        /\ slots[d][tokens[a].slotIndex].emergencyCount >= 1
        /\ tokens[q].source = "EMERGENCY" /\ tokens[q].status = "QUEUED"
        /\ a < q
        /\ occurrences(queues[d], q) = 1
        /\ ~dailyQuotaReached(slots[d], d)

\* a slot that is not BLOCKED, is filled to capacity and has no occupant
\* with a flexibility tag
fullUntagged(T, slot) ==
    /\ slot.status # "BLOCKED"
    /\ occupancy(slot) >= slot.capacity
    /\ \A k \in 1..Len(slot.allocatedTokenIds) :
          T[slot.allocatedTokenIds[k]].flexibility = NoFlexibility

\* C26: handleEmergency with the reshuffler takes no occupant out of a full
\* slot whose occupants all lack a flexibility tag, and when every slot
\* that is not BLOCKED is such a slot the urgent token is left QUEUED
C26_UntaggedNotMoved ==
    \A d \in DoctorIds :
        LET id == Len(tokens) + 1
            r == handleEmergency(withUrgent(tokens), slots[d], queues[d], id, d, TRUE)
        IN  /\ \A i \in DOMAIN slots[d] :
                  fullUntagged(tokens, slots[d][i]) =>
                      \A k \in 1..Len(slots[d][i].allocatedTokenIds) :
                          /\ contains(r.slots[i].allocatedTokenIds,
                                      slots[d][i].allocatedTokenIds[k])
                          /\ r.tokens[slots[d][i].allocatedTokenIds[k]].slotIndex = i
            /\ (\A i \in DOMAIN slots[d] :
                    slots[d][i].status = "BLOCKED" \/ fullUntagged(tokens, slots[d][i]))
               => (~r.ret /\ r.tokens[id].status = "QUEUED")

\* C27: a token that handleEmergency relocates to make room has a strictly
\* lower priorityScore than the urgent token being placed, and is never an
\* EMERGENCY token itself
C27_RelocatedHasLowerPriority ==
    \A d \in DoctorIds :
        LET id == Len(tokens) + 1
            r == handleEmergency(withUrgent(tokens), slots[d], queues[d], id, d, TRUE)
        IN  \A x \in TokenIds :
                (tokens[x].status = "ALLOCATED"
                    /\ r.tokens[x].slotIndex # tokens[x].slotIndex)
                => /\ tokens[x].priorityScore < r.tokens[id].priorityScore
                   /\ tokens[x].source # "EMERGENCY"

\* the urgent token as attemptReshuffle receives it: scored by the handler
scoredUrgent(T) ==
    [withUrgent(T) EXCEPT ![Len(T) + 1].priorityScore =
                              calculatePriority("EMERGENCY", Clock)]

\* how many times the slots of one doctor hold an id
RECURSIVE heldTimes(_, _, _)
heldTimes(S, id, i) ==
    IF i \notin DOMAIN S THEN 0
    ELSE occurrences(S[i].allocatedTokenIds, id) + heldTimes(S, id, i + 1)

\* C30: an attemptReshuffle call that returns a slot raises the doctor's
\* total occupancy by exactly 1, the urgent token, every other token being
\* held as many times as before; a call that returns null leaves every slot
\* and every token as it was
C30_ReshuffleNetZero ==
    \A d \in DoctorIds :
        LET id == Len(tokens) + 1
            r == attemptReshuffle(scoredUrgent(tokens), slots[d], id, d)
        IN  /\ r.ret # NoSlot =>
                  /\ totalOccupancy(r.slots) = totalOccupancy(slots[d]) + 1
                  /\ heldTimes(r.slots, id, 0) = 1
                  /\ \A x \in TokenIds : heldTimes(r.slots, x, 0) = heldTimes(slots[d], x, 0)
            /\ r.ret = NoSlot =>
                  /\ r.slots = slots[d]
                  /\ r.tokens = scoredUrgent(tokens)

\* a reshuffle took place: both one-seat slots are taken, slot 0 by the
\* emergency created last, slot 1 by an older token that is not an
\* emergency, and the emergency once counted in slot 1 is gone
C30_Witness ==
    \E d \in DoctorIds, m \in TokenIds :
        /\ Len(tokens) = 3
        /\ 1 \in DOMAIN slots[d]
        /\ slots[d][0].capacity = 1
        /\ tokens[3].source = "EMERGENCY"
        /\ slots[d][0].allocatedTokenIds = <<3>>
        /\ slots[d][0].status = "FULL"
        /\ slots[d][1].allocatedTokenIds = <<m>>
        /\ tokens[m].source # "EMERGENCY"
        /\ slots[d][1].emergencyCount = 1
        /\ totalOccupancy(slots[d]) = 2

\* the assigned tokens whose slot a call's result r has changed
relocatedBy(r) ==
    {id \in 1..Len(tokens) : /\ tokens[id].status = "ALLOCATED"
                            /\ r.tokens[id].slotIndex # tokens[id].slotIndex}

\* no slot of S at positions i+1, i+2 is AVAILABLE with a free seat
noRoomAhead(S, i) ==
    \A j \in {i + 1, i + 2} \cap DOMAIN S :
        ~(S[j].status = "AVAILABLE" /\ occupancy(S[j]) < S[j].capacity)

\* C28: reshuffling is local and single-hop.  In every reachable ledger, a
\* call of attemptReshuffle for an emergency arriving now changes the slot
\* of at most one assigned token; its destination lies at most 2 positions
\* from its source, had status AVAILABLE and a free seat before the call,
\* and lies before the source only if neither of the two positions after
\* the source had room.  The search itself, started from any slot of the
\* day, answers with another slot at most 2 positions away that is
\* AVAILABLE with a free seat, and with an earlier one only if neither of
\* the two later positions had room.
C28_ReshuffleLocalSingleHop ==
    \A d \in DoctorIds :
        LET r == attemptReshuffle(withUrgent(tokens), slots[d], Len(tokens) + 1, d)
        IN  /\ Cardinality(relocatedBy(r)) <= 1
            /\ \A id \in relocatedBy(r) :
                  LET src == tokens[id].slotIndex
                      dst == r.tokens[id].slotIndex
                  IN  /\ dst \in DOMAIN slots[d]
                      /\ dst - src <= 2
                      /\ src - dst <= 2
                      /\ slots[d][dst].status = "AVAILABLE"
                      /\ occupancy(slots[d][dst]) < slots[d][dst].capacity
                      /\ dst < src => noRoomAhead(slots[d], src)
            /\ \A i \in DOMAIN slots[d] :
                  LET n == findNearbySlotWithCapacity(slots[d], i, RESHUFFLE_WINDOW)
                  IN  n # NoSlot =>
                        /\ n \in DOMAIN slots[d] \ {i}
                        /\ n - i <= 2
                        /\ i - n <= 2
                        /\ slots[d][n].status = "AVAILABLE"
                        /\ occupancy(slots[d][n]) < slots[d][n].capacity
                        /\ n < i => noRoomAhead(slots[d], i)

\* C28 witness: a day of four slots with no slot blocked.  The late
\* emergency u sits in slot 1 next to the emergency that opened the day
\* there; the walk-in w it displaced sits two positions later, in slot 3;
\* and after a departure from slot 0 the search started from slot 2 finds
\* nothing ahead and answers slot 0, two positions back.
C28_Witness ==
    \E d \in DoctorIds, u \in 1..Len(tokens), w \in 1..Len(tokens) :
        /\ 3 \in DOMAIN slots[d]
        /\ \A i \in DOMAIN slots[d] : slots[d][i].status # "BLOCKED"
        /\ tokens[u].requestedAt > StartOfDay
        /\ tokens[w].source = "WALKIN"
        /\ slots[d][1].allocatedTokenIds = <<2, u>>
        /\ slots[d][3].allocatedTokenIds = <<4, w>>
        /\ findNearbySlotWithCapacity(slots[d], 2, RESHUFFLE_WINDOW) = 0

\* the documented order of preference: HIGH > MEDIUM > LOW > no tag
outranks(f, g) ==
    \/ f = "HIGH" /\ g \in {"MEDIUM", "LOW", NoFlexibility}
    \/ f = "MEDIUM" /\ g \in {"LOW", NoFlexibility}
    \/ f = "LOW" /\ g = NoFlexibility

\* c is an occupant of the slot that no occupant outranks and that outranks
\* every occupant standing before it
firstOfHighestRank(slot, c) ==
    \E k \in 1..occupancy(slot) :
        /\ slot.allocatedTokenIds[k] = c
        /\ \A j \in 1..occupancy(slot) :
              ~outranks(tokens[slot.allocatedTokenIds[j]].flexibility, tokens[c].flexibility)
        /\ \A j \in 1..(k - 1) :
              outranks(tokens[c].flexibility, tokens[slot.allocatedTokenIds[j]].flexibility)

\* C29: in every full slot of every reachable day, findMostFlexibleToken
\* names an occupant of the highest flexibility rank present in the slot
\* (HIGH above MEDIUM above LOW above no tag), and of the occupants of that
\* rank the first in the slot's occupant order; and the token that a call
\* of attemptReshuffle moves out of a slot is that occupant of the slot.
C29_MostFlexibleFirst ==
    \A d \in DoctorIds :
        /\ \A i \in DOMAIN slots[d] :
              (slots[d][i].capacity > 0 /\ occupancy(slots[d][i]) >= slots[d][i].capacity)
              => firstOfHighestRank(slots[d][i], findMostFlexibleToken(tokens, slots[d][i]))
        /\ LET r == attemptReshuffle(withUrgent(tokens), slots[d], Len(tokens) + 1, d)
           IN  \A id \in relocatedBy(r) :
                  /\ tokens[id].slotIndex \in DOMAIN slots[d]
                  /\ occupancy(slots[d][tokens[id].slotIndex])
                        >= slots[d][tokens[id].slotIndex].capacity
                  /\ firstOfHighestRank(slots[d][tokens[id].slotIndex], id)

\* C29 witness: a day of two slots of three seats after the late emergency.
\* Slot 0 held the untagged emergency 1 and the walk-ins 3 and 4, both
\* tagged HIGH; token 3, the first of the two, has been moved to slot 1 and
\* the late emergency 6 has taken its seat.
C29_Witness ==
    \E d \in DoctorIds :
        /\ Len(tokens) = 6
        /\ 1 \in DOMAIN slots[d]
        /\ tokens[1].flexibility = NoFlexibility
        /\ tokens[3].flexibility = "HIGH"
        /\ tokens[4].flexibility = "HIGH"
        /\ tokens[6].requestedAt > StartOfDay
        /\ slots[d][0].allocatedTokenIds = <<1, 4, 6>>
        /\ slots[d][1].allocatedTokenIds = <<2, 5, 3>>

\* slot i of doctor d is open to a direct urgent placement: not BLOCKED, a
\* free seat, and fewer emergencies counted than the per-slot ceiling
\* (1 when the doctor has none configured)
qualifies(d, i) ==
    /\ slots[d][i].status # "BLOCKED"
    /\ Len(slots[d][i].allocatedTokenIds) < slots[d][i].capacity
    /\ slots[d][i].emergencyCount <
          (IF doctors[d].maxEmergenciesPerSlot = Undefined THEN 1
           ELSE doctors[d].maxEmergenciesPerSlot)

\* C31: when the day's ceiling is not reached and some slot qualifies (not
\* BLOCKED, a free seat, emergencyCount below the per-slot ceiling, default
\* 1), handleEmergency, with or without the reshuffler, puts the emergency
\* at the end of the first qualifying slot of the day, adds 1 to that
\* slot's emergencyCount and to no other, and leaves every other slot as it
\* was; when no slot qualifies and there is no reshuffler nothing is placed.
C31_DirectPlacementFirstQualifying ==
    \A d \in DoctorIds, b \in BOOLEAN :
        LET id == Len(tokens) + 1
            r == handleEmergency(withUrgent(tokens), slots[d], queues[d], id, d, b)
            open == {i \in DOMAIN slots[d] : qualifies(d, i)}
        IN  \/ dailyQuotaReached(slots[d], d)
            \/ IF open = {}
               THEN b \/ (~r.ret /\ r.slots = slots[d])
               ELSE \E f \in open :
                      /\ \A i \in open : f <= i
                      /\ r.ret
                      /\ r.tokens[id].slotIndex = f
                      /\ r.slots[f].allocatedTokenIds =
                            Append(slots[d][f].allocatedTokenIds, id)
                      /\ r.slots[f].emergencyCount = slots[d][f].emergencyCount + 1
                      /\ \A i \in DOMAIN slots[d] \ {f} : r.slots[i] = slots[d][i]

\* C31 witness: two emergencies and nothing else; the first holds a seat of
\* slot 0, which still has a free seat but has reached the ceiling of one
\* emergency, and the second was therefore placed and counted in slot 1
C31_Witness ==
    \E d \in DoctorIds :
        /\ Len(tokens) = 2
        /\ tokens[1].source = "EMERGENCY" /\ tokens[2].source = "EMERGENCY"
        /\ 1 \in DOMAIN slots[d]
        /\ slots[d][0].capacity = 2
        /\ slots[d][0].allocatedTokenIds = <<1>>
        /\ slots[d][0].emergencyCount = 1
        /\ slots[d][1].allocatedTokenIds = <<2>>
        /\ slots[d][1].emergencyCount = 1

\* the doctor has a per-day ceiling and the emergencies counted in the
\* slots of the day add up to it or more
dayCeilingReached(d) ==
    /\ doctors[d].maxEmergenciesPerDay # Undefined
    /\ countDailyEmergencies(slots[d]) >= doctors[d].maxEmergenciesPerDay

\* C32: when the doctor has a per-day ceiling and the emergencyCount of the
\* slots adds up to it, handleEmergency, with or without the reshuffler,
\* returns false, leaves every slot and every other token as they were, and
\* adds the token, QUEUED and without a slot, to the doctor's queue; this
\* also when a slot that is not BLOCKED has a free seat.
C32_DayCeilingQueues ==
    \A d \in DoctorIds, b \in BOOLEAN :
        LET id == Len(tokens) + 1
            r == handleEmergency(withUrgent(tokens), slots[d], queues[d], id, d, b)
        IN  dayCeilingReached(d) =>
              /\ r.ret = FALSE
              /\ r.slots = slots[d]
              /\ \A x \in 1..Len(tokens) : r.tokens[x] = tokens[x]
              /\ r.tokens[id].status = "QUEUED"
              /\ r.tokens[id].slotIndex = NoSlot
              /\ r.tokens[id].doctorId = d
              /\ occurrences(r.queue, id) = 1
              /\ remove(r.queue, id) = queues[d]

\* C32 witness: the day's ceiling is reached, an emergency has left and its
\* seat is free in a slot that is not BLOCKED, and a later emergency waits
\* QUEUED in the doctor's queue
C32_Witness ==
    \E d \in DoctorIds, q \in TokenIds, i \in 0..1 :
        /\ dayCeilingReached(d)
        /\ i \in DOMAIN slots[d]
        /\ slots[d][i].status # "BLOCKED"
        /\ occupancy(slots[d][i]) < slots[d][i].capacity
        /\ tokens[q].source = "EMERGENCY"
        /\ tokens[q].status = "QUEUED"
        /\ occurrences(queues[d], q) = 1
        /\ \E a \in TokenIds :
              a < q /\ tokens[a].source = "EMERGENCY" /\ tokens[a].status = "COMPLETED"

\* C33: handleEmergency called with a token whose source is not EMERGENCY
\* throws and writes nothing: the token, every other token, the slots and
\* the queue are what they were.  This for a fresh token of each other
\* source and for every token of another source already in the ledger,
\* with and without the reshuffler; a fresh EMERGENCY token does not throw.
C33_NonEmergencyRejected ==
    \A d \in DoctorIds, b \in BOOLEAN :
        /\ \A source \in PatientSource :
              LET T0 == Append(tokens, newToken(source, NoFlexibility, Clock))
                  r == handleEmergencyCall(T0, slots[d], queues[d], Len(T0), d, b)
              IN  IF source = "EMERGENCY" THEN ~r.threw
                  ELSE /\ r.threw
                       /\ r.tokens = T0
                       /\ r.slots = slots[d]
                       /\ r.queue = queues[d]
        /\ \A id \in 1..Len(tokens) :
              tokens[id].source # "EMERGENCY" =>
                  LET r == handleEmergencyCall(tokens, slots[d], queues[d], id, d, b)
                  IN  /\ r.threw
                      /\ r.tokens = tokens
                      /\ r.slots = slots[d]
                      /\ r.queue = queues[d]

\* C33 witness: a ledger in which the call would have something to write:
\* a slot that qualifies for an emergency, a token waiting in the queue,
\* and a walk-in in the ledger on which the call throws
C33_Witness ==
    \E d \in DoctorIds, id \in TokenIds :
        /\ tokens[id].source = "WALKIN"
        /\ tokens[id].status = "QUEUED"
        /\ queues[d] # <<>>
        /\ \E i \in DOMAIN slots[d] : qualifies(d, i)
        /\ handleEmergencyCall(tokens, slots[d], queues[d], id, d, TRUE).threw

\* C34: in every slot, emergencyCount is the number of EMERGENCY tokens
\* among the slot's occupants
C34_CountMatchesOccupants ==
    \A ref \in SlotRefs : slotAt(ref).emergencyCount = emergencyOccupants(slotAt(ref))

\* the doctors whose slots a call for token id can be given
doctorsOf(id) ==
    IF tokens[id].doctorId = NoDoctor THEN DoctorIds ELSE {tokens[id].doctorId}

\* C35: freeTokenFromSlot on a token of the ledger.  Calling it twice gives
\* what calling it once gives.  With slotIndex null it changes nothing.
\* With a slotIndex it clears slotIndex and allocatedAt of that token and
\* touches no other token and not its status; the token's slot loses
\* exactly that id (one occupant fewer, the others in their order), keeps
\* capacity and emergencyCount, is AVAILABLE if it was FULL or AVAILABLE and
\* BLOCKED if it was BLOCKED; every other slot is as it was.
C35_FreeTokenFromSlot ==
    \A id \in 1..Len(tokens) : \A d \in doctorsOf(id) :
        LET f == freeTokenFromSlot(tokens, slots[d], id)
            g == freeTokenFromSlot(f.tokens, f.slots, id)
            s == tokens[id].slotIndex
        IN  /\ g = f
            /\ s = NoSlot => (f.tokens = tokens /\ f.slots = slots[d])
            /\ s # NoSlot =>
                  /\ f.tokens[id] = [tokens[id] EXCEPT !.slotIndex = NoSlot,
                                                       !.allocatedAt = NoDate]
                  /\ \A x \in 1..Len(tokens) : x # id => f.tokens[x] = tokens[x]
                  /\ f.slots[s].allocatedTokenIds =
                        SelectSeq(slots[d][s].allocatedTokenIds, LAMBDA x : x # id)
                  /\ Len(f.slots[s].allocatedTokenIds) =
                        Len(slots[d][s].allocatedTokenIds) - 1
                  /\ f.slots[s].capacity = slots[d][s].capacity
                  /\ f.slots[s].emergencyCount = slots[d][s].emergencyCount
                  /\ f.slots[s].status =
                        (IF slots[d][s].status = "BLOCKED" THEN "BLOCKED" ELSE "AVAILABLE")
                  /\ \A i \in DOMAIN slots[d] : i # s => f.slots[i] = slots[d][i]

\* C35 witness: a token marked NO_SHOW has been freed (no slotIndex, in no
\* slot), a second token holds a seat of a FULL slot, a third has never
\* had a slot and waits in the queue, and the first slot of the day is
\* BLOCKED
C35_Witness ==
    \E d \in DoctorIds, a \in TokenIds, b \in TokenIds, c \in TokenIds :
        /\ tokens[a].status = "NO_SHOW"
        /\ tokens[a].slotIndex = NoSlot
        /\ \A i \in DOMAIN slots[d] : ~contains(slots[d][i].allocatedTokenIds, a)
        /\ tokens[b].status = "ALLOCATED"
        /\ tokens[b].doctorId = d
        /\ slots[d][tokens[b].slotIndex].status = "FULL"
        /\ tokens[c].slotIndex = NoSlot
        /\ contains(queues[d], c)
        /\ slots[d][0].status = "BLOCKED"

\* C36: when no slot of the doctor starts strictly before the end of the
\* delay, handleDoctorDelay returns an empty list and the tokens, the slots
\* (status and occupants) and the queue are what they were
C36_UnreachingDelayNoOp ==
    \A d \in DoctorIds : \A e \in 0..doctors[d].numSlots :
        LET r == handleDoctorDelay(tokens, slots[d], queues[d], d, e)
        IN  (\A i \in DOMAIN slots[d] : ~(slots[d][i].startTime < e)) =>
              /\ r.ret = <<>>
              /\ r.tokens = tokens
              /\ r.slots = slots[d]
              /\ r.queue = queues[d]

\* C36 witness: a day with a FULL slot and a token waiting in the queue, on
\* which a delay that ends at the start of the first slot displaces nobody
C36_Witness ==
    \E d \in DoctorIds, a \in TokenIds :
        /\ slots[d][0].status = "FULL"
        /\ slots[d][0].allocatedTokenIds # <<>>
        /\ tokens[a].status = "QUEUED"
        /\ contains(queues[d], a)
        /\ ~(slots[d][0].startTime < 0)
        /\ handleDoctorDelay(tokens, slots[d], queues[d], d, 0).ret = <<>>

\* every slot of doctor d is BLOCKED
allBlocked(d) == \A i \in DOMAIN slots[d] : slots[d][i].status = "BLOCKED"

\* C37: BLOCKED is absorbing and blocked slots stay empty.  Over every step:
\* a slot that is BLOCKED after the step has no occupants; a slot that was
\* BLOCKED before the step is BLOCKED after it; and when every slot of a
\* doctor was BLOCKED before the step, no token of that doctor is ALLOCATED
\* after it and every token that was REQUEUED is still REQUEUED.
C37_BlockedAbsorbing ==
    [][ \A d \in DoctorIds :
          /\ \A i \in DOMAIN slots[d] :
                /\ slots'[d][i].status = "BLOCKED" => slots'[d][i].allocatedTokenIds = <<>>
                /\ slots[d][i].status = "BLOCKED" => slots'[d][i].status = "BLOCKED"
          /\ allBlocked(d) =>
                /\ \A id \in 1..Len(tokens') :
                      tokens'[id].doctorId = d => tokens'[id].status # "ALLOCATED"
                /\ \A id \in 1..Len(tokens) :
                      tokens[id].status = "REQUEUED" => tokens'[id].status = "REQUEUED"
      ]_vars

\* C37 witness: every slot of the doctor is BLOCKED and empty, a displaced
\* token waits REQUEUED in the queue and an emergency waits QUEUED behind
\* or ahead of it
C37_Witness ==
    \E d \in DoctorIds, a \in TokenIds, q \in TokenIds :
        /\ allBlocked(d)
        /\ \A i \in DOMAIN slots[d] : slots[d][i].allocatedTokenIds = <<>>
        /\ tokens[a].status = "REQUEUED"
        /\ contains(queues[d], a)
        /\ tokens[q].source = "EMERGENCY"
        /\ tokens[q].status = "QUEUED"
        /\ contains(queues[d], q)

TerminalStatus == {"CANCELLED", "NO_SHOW", "COMPLETED"}

\* C38: CANCELLED, NO_SHOW and COMPLETED are terminal.  Over every step: a
\* token that is CANCELLED, NO_SHOW or COMPLETED after the step is held by
\* no slot and stands in no queue; and a token that had one of these
\* statuses before the step has the same status, slotIndex and doctorId
\* after it.
C38_TerminalStatuses ==
    [][ \A id \in 1..Len(tokens') :
          /\ tokens'[id].status \in TerminalStatus =>
                \A d \in DoctorIds :
                   /\ ~contains(queues'[d], id)
                   /\ \A i \in DOMAIN slots'[d] :
                         ~contains(slots'[d][i].allocatedTokenIds, id)
          /\ (id <= Len(tokens) /\ tokens[id].status \in TerminalStatus) =>
                /\ tokens'[id].status = tokens[id].status
                /\ tokens'[id].slotIndex = tokens[id].slotIndex
                /\ tokens'[id].doctorId = tokens[id].doctorId
      ]_vars

\* C38 witness: one token was cancelled and one completed, and the day has
\* gone on: the doctor was late (slot 0 is BLOCKED) and a third token
\* holds a seat in a later slot
C38_Witness ==
    \E d \in DoctorIds, a \in TokenIds, b \in TokenIds, c \in TokenIds :
        /\ tokens[a].status = "CANCELLED"
        /\ tokens[b].status = "COMPLETED"
        /\ tokens[a].slotIndex = NoSlot /\ tokens[b].slotIndex = NoSlot
        /\ slots[d][0].status = "BLOCKED"
        /\ tokens[c].status = "ALLOCATED"
        /\ tokens[c].doctorId = d
        /\ tokens[c].slotIndex > 0

\* the number of passes through the loop of allocateFromQueue that reach
\* allocateToken: one for each token taken off the queue
RECURSIVE allocateCalls(_, _, _, _)
allocateCalls(T, S, Q, d) ==
    IF Q = <<>> THEN 0
    ELSE LET r == allocateToken(T, S, Head(Q), d)
         IN  IF r.ret = NoSlot THEN 1
             ELSE 1 + allocateCalls(r.tokens, r.slots, Tail(Q), d)

\* C39: allocateFromQueue on any reachable ledger ends after at most one
\* call of allocateToken per queued token: the number it returns is the
\* number of placements and lies between 0 and the length of the queue,
\* the queue is shorter by exactly that number, the calls made are the
\* placements plus at most one failed attempt (after which the queue is
\* not empty), and on an empty queue it returns 0 and changes nothing.
C39_DrainTerminates ==
    \A d \in DoctorIds :
        LET r == allocateFromQueue(tokens, slots[d], queues[d], d)
            n == allocateCalls(tokens, slots[d], queues[d], d)
        IN  /\ r.ret \in 0..Len(queues[d])
            /\ Len(r.queue) = Len(queues[d]) - r.ret
            /\ n \in {r.ret, r.ret + 1}
            /\ n <= Len(queues[d])
            /\ n = r.ret + 1 => r.queue # <<>>
            /\ r.ret = Cardinality({id \in 1..Len(tokens) :
                                      /\ tokens[id].status # "ALLOCATED"
                                      /\ r.tokens[id].status = "ALLOCATED"})
            /\ queues[d] = <<>> =>
                  /\ r.ret = 0
                  /\ r.tokens = tokens
                  /\ r.slots = slots[d]
                  /\ r.queue = <<>>

\* C39 witness: three tokens wait in the queue of a doctor with two free
\* seats; the drain places two of them and stops at the third, its one
\* failed attempt
C39_Witness ==
    \E d \in DoctorIds :
        /\ Len(queues[d]) = 3
        /\ allocateFromQueue(tokens, slots[d], queues[d], d).ret = 2
        /\ allocateCalls(tokens, slots[d], queues[d], d) = 3
====
